---- MODULE Spec2Model ----
(***************************************************************************)
(* The tool-augmented conversation controller of yaoc/openai_cli.py: the   *)
(* tool registry (ToolManager), the session loop of main() with its        *)
(* tool-dispatch loop, and the response presenter (print_response).        *)
(*                                                                         *)
(* Text is a sequence of tokens; the two inline markers "<answer>" and     *)
(* "<|end|>" are single tokens, " " is a whitespace character.             *)
(***************************************************************************)
EXTENDS Integers, Sequences, FiniteSets, TLC

VARIABLES
  enabled,            \* args: the tool categories switched on (tools_* flags)
  apiKey,             \* environment: LANGSEARCH_API_KEY is set
  system,             \* args.system is non-empty
  tools,              \* tool_manager.tools: name -> provider class
  specs,              \* tool_manager.specs: list of spec names
  messages,           \* the conversation log
  pc,                 \* position of main()
  assistant_message,  \* main's local: the latest assistant message
  idx,                \* position of the for loop in assistant_message.tool_calls
  tool_result,        \* main's local: result of the call just dispatched
  error,              \* exception raised in the current loop iteration
  nRequests,          \* completion requests sent by call_llm
  nRuns,              \* provider run() invocations
  printed,            \* (thinking_text, answer_text) of the last print_response
  isatty,             \* sys.stdin.isatty()
  stop_event,         \* the threading.Event of the turn is set
  worker,             \* animation_thread: "none", "running" or "finished"
  frame,              \* spinner frame on the terminal (0: none)
  after,              \* where main goes when the finally block is left
  args_model,         \* args.model ("" when --model is not given)
  srv_models,         \* the server's answer to GET /models
  model_name,         \* main's local: the id get_model_name returned
  request_model       \* "model" of the latest completion request's payload

vars == <<enabled, apiKey, system, tools, specs, messages, pc,
          assistant_message, idx, tool_result, error, nRequests,
          nRuns, printed, isatty, stop_event, worker, frame, after,
          args_model, srv_models, model_name, request_model>>

-----------------------------------------------------------------------------
(* Bounds of the model *)

MaxRequests == 2    \* completion requests in one session
MaxCalls == 2       \* tool_calls in one assistant message
MaxLen == 3         \* tokens of a presented content

-----------------------------------------------------------------------------
(* Tool providers *)

ToolType == {"basic", "file_access", "web_access"}

\* Tools.__subclasses__(): the provider classes in definition order
ToolClasses ==
  <<"Time", "WebFetchTool", "WebSearchTool", "ListDir", "ReadFile", "WriteFile">>

tool_type(cls) ==
  CASE cls = "Time" -> "basic"
    [] cls \in {"WebFetchTool", "WebSearchTool"} -> "web_access"
    [] OTHER -> "file_access"

\* spec["function"]["name"] of a provider class
spec_name(cls) ==
  CASE cls = "Time" -> "get_time"
    [] cls = "WebFetchTool" -> "web_fetch"
    [] cls = "WebSearchTool" -> "web_search"
    [] cls = "ListDir" -> "list_dir"
    [] cls = "ReadFile" -> "read_file"
    [] OTHER -> "write_file"

\* tool_class(): only WebSearchTool has a constructor, which raises ValueError
\* when the credential is missing
constructs(cls, key) == cls # "WebSearchTool" \/ key

NoTools == [tools |-> <<>>, specs |-> <<>>]

RECURSIVE register(_, _, _, _)
register(i, en, key, tm) ==
  IF i > Len(ToolClasses) THEN tm
  ELSE LET cls == ToolClasses[i] IN
    IF ~constructs(cls, key) THEN register(i + 1, en, key, tm)
    ELSE IF tool_type(cls) \notin en THEN register(i + 1, en, key, tm)
    ELSE register(i + 1, en, key,
                  [tools |-> (spec_name(cls) :> cls) @@ tm.tools,
                   specs |-> Append(tm.specs, spec_name(cls))])

\* a registry whose try block encloses the whole for loop: the first failing
\* constructor ends the registration
RECURSIVE registerAbort(_, _, _, _)
registerAbort(i, en, key, tm) ==
  IF i > Len(ToolClasses) THEN tm
  ELSE LET cls == ToolClasses[i] IN
    IF ~constructs(cls, key) THEN tm
    ELSE IF tool_type(cls) \notin en THEN registerAbort(i + 1, en, key, tm)
    ELSE registerAbort(i + 1, en, key,
                       [tools |-> (spec_name(cls) :> cls) @@ tm.tools,
                        specs |-> Append(tm.specs, spec_name(cls))])

ToolManagerInitAbort(en, key) == registerAbort(1, en, key, NoTools)

ToolManagerInit(en, key) == register(1, en, key, NoTools)

-----------------------------------------------------------------------------
(* Messages *)

Text == <<"x">>

Msg(role, content, calls, id, name) ==
  [role |-> role, content |-> content, has_reasoning |-> FALSE,
   reasoning_content |-> <<>>, tool_calls |-> calls,
   tool_call_id |-> id, name |-> name]

NoMsg == Msg("none", <<>>, <<>>, 0, "")

SystemMsg == Msg("system", Text, <<>>, 0, "")

\* a user message, text-only or multimodal: its content is opaque to the
\* controller and is not told apart in the log
UserMsg == Msg("user", Text, <<>>, 0, "")

\* what the remote model may ask for: a tool name, registered or not under
\* the session's configuration, and an arguments string that json.loads
\* accepts or rejects; the ids of one message are distinct (the position)
CallRequest ==
  {[name |-> "get_time", arguments |-> "valid"],
   [name |-> "web_search", arguments |-> "valid"],
   [name |-> "web_search", arguments |-> "malformed_json"]}

WithId(c, i) == [id |-> i, name |-> c.name, arguments |-> c.arguments]

ToolCallLists ==
  UNION {{[i \in 1..n |-> WithId(f[i], i)] : f \in [1..n -> CallRequest]} :
         n \in 0..MaxCalls}

\* the assistant turns the remote endpoint may return in a session
AssistantTurns == {Msg("assistant", Text, c, 0, "") : c \in ToolCallLists}

\* a tool message that loses the id of its call
ToolMessageNoId(call, result) ==
  Msg("tool", <<result>>, <<>>, 0, call.name)

ToolMessage(call, result) ==
  Msg("tool", <<result>>, <<>>, call.id, call.name)

\* messages.insert(0, m) in place of messages.append(m)
AppendMsgFront(msgs, m) == <<m>> \o msgs

AppendMsg(msgs, m) == Append(msgs, m)

-----------------------------------------------------------------------------
(* Tool dispatch *)

\* json.loads(tool_call["function"]["arguments"]): TRUE when it returns
json_loads(arguments) == arguments # "malformed_json"

Returned(result) == [raised |-> "none", result |-> result, ran |-> TRUE]

Raised(exc, ran) == [raised |-> exc, result |-> "none", ran |-> ran]

\* a provider whose run() lets the failure of its own remote call escape
runRaises(cls, arguments, outcome) ==
  IF cls = "Time" THEN Returned("ok")
  ELSE IF outcome = "fail" THEN Raised("RequestException", TRUE)
  ELSE Returned("ok")

\* tools[tool_name].run(**kwargs): Time.run has nothing that fails; the
\* other providers catch the failure of their call and return "Error: ..."
run(cls, arguments, outcome) ==
  IF cls = "Time" THEN Returned("ok")
  ELSE IF outcome = "fail" THEN Returned("Error")
  ELSE Returned("ok")

\* a run_tool that answers an unknown name with an error text
run_toolSilent(tls, tool_name, arguments, outcome) ==
  IF tool_name \in DOMAIN tls
    THEN run(tls[tool_name], arguments, outcome)
    ELSE Returned("Error")

run_tool(tls, tool_name, arguments, outcome) ==
  IF tool_name \in DOMAIN tls
    THEN run(tls[tool_name], arguments, outcome)
    ELSE Raised("ToolNotFound", FALSE)

Outcomes == {"ok", "fail"}

\* a loop condition that forgets the registry
LoopCondNoSpecs(sp, msg) == msg.tool_calls # <<>>

\* a loop condition that is off by one
LoopCondMany(sp, msg) == sp # <<>> /\ Len(msg.tool_calls) > 1

\* index of the last user message of the log (0 when there is none)
LastUser ==
  LET U == {u \in 1..Len(messages) : messages[u].role = "user"} IN
  IF U = {} THEN 0 ELSE CHOOSE u \in U : \A v \in U : v <= u

\* the tool round-trips of the current user turn: its assistant messages
\* that carry tool_calls
ToolRounds ==
  Cardinality({k \in (LastUser + 1)..Len(messages) :
                 messages[k].role = "assistant" /\ messages[k].tool_calls # <<>>})

\* a loop condition with a cap of one round-trip per user turn
LoopCondCapped(sp, msg) == sp # <<>> /\ msg.tool_calls # <<>> /\ ToolRounds < 1

\* while tool_manager.specs and assistant_message.get("tool_calls")
LoopCond(sp, msg) == sp # <<>> /\ msg.tool_calls # <<>>

\* a for loop left after its first call
ForLoopFirstOnly(i, calls) == FALSE

\* for tool_call in assistant_message["tool_calls"]: another call follows
ForLoopMore(i, calls) == i < Len(calls)

-----------------------------------------------------------------------------
(* Image attachment *)

ImageInputs ==
  {"ok", "bad_tag", "bad_type", "missing", "fetch_failed"}

\* parse_image(user_input), by the kind of input
parse_image(kind) ==
  CASE kind = "bad_tag" -> "MalformedImageTag"
    [] kind = "bad_type" -> "UnsupportedImageType"
    [] kind = "missing" -> "ImageNotFound"
    [] kind = "fetch_failed" -> "RequestException"
    [] OTHER -> "none"

\* the exceptions of parse_image that are ValueError
ValueErrors == {"MalformedImageTag", "UnsupportedImageType", "ImageNotFound"}

-----------------------------------------------------------------------------
(* Response presenter *)

WS == " "
AnswerMarker == "<answer>"
EndMarker == "<|end|>"

Contains(s, m) == \E i \in 1..Len(s) : s[i] = m

\* position of the first m in s at or after i (0 when there is none)
RECURSIVE find(_, _, _)
find(s, m, i) ==
  IF i > Len(s) THEN 0 ELSE IF s[i] = m THEN i ELSE find(s, m, i + 1)

RECURSIVE lstrip(_)
lstrip(s) == IF s # <<>> /\ Head(s) = WS THEN lstrip(Tail(s)) ELSE s

RECURSIVE rstrip(_)
rstrip(s) ==
  IF s # <<>> /\ s[Len(s)] = WS THEN rstrip(SubSeq(s, 1, Len(s) - 1)) ELSE s

\* str.strip()
strip(s) == rstrip(lstrip(s))

\* content.split(marker, 1), content holding the marker
split1(s, m) ==
  LET i == find(s, m, 1) IN <<SubSeq(s, 1, i - 1), SubSeq(s, i + 1, Len(s))>>

\* a presenter that looks for "<|end|>" before "<answer>"
print_responseEndFirst(response) ==
  LET content == response.content IN
  IF response.has_reasoning /\ response.reasoning_content # <<>>
    THEN <<response.reasoning_content, content>>
    ELSE LET answer_marker ==
               IF Contains(content, EndMarker) THEN EndMarker
               ELSE IF Contains(content, AnswerMarker) THEN AnswerMarker
               ELSE "" IN
         IF answer_marker = ""
           THEN <<<<>>, content>>
           ELSE LET parts == split1(content, answer_marker) IN
                <<strip(parts[1]), strip(parts[2])>>

\* print_response: the pair (thinking_text, answer_text)
print_response(response) ==
  LET content == response.content IN
  IF response.has_reasoning /\ response.reasoning_content # <<>>
    THEN <<response.reasoning_content, content>>
    ELSE LET answer_marker ==
               IF Contains(content, AnswerMarker) THEN AnswerMarker
               ELSE IF Contains(content, EndMarker) THEN EndMarker
               ELSE "" IN
         IF answer_marker = ""
           THEN <<<<>>, content>>
           ELSE LET parts == split1(content, answer_marker) IN
                <<strip(parts[1]), strip(parts[2])>>

NotPrinted == <<<<"-">>, <<"-">>>>

-----------------------------------------------------------------------------
(* Model resolution and the completion request *)

ServerUp(ids) == [ok |-> TRUE, data |-> ids]

\* GET /models failed: raise_for_status or the transport raised
ServerDown == [ok |-> FALSE, data |-> <<>>]

NotResolved == "unresolved"

NoRequest == "no request"

\* get_model_name(base_url, api_key, model), by the server's answer
get_model_name(srv, model) ==
  IF ~srv.ok THEN [raised |-> "RequestException", id |-> NotResolved]
  ELSE IF model = ""
    THEN IF srv.data = <<>>
           THEN [raised |-> "IndexError", id |-> NotResolved]
           ELSE [raised |-> "none", id |-> srv.data[1]]
  ELSE IF \E i \in 1..Len(srv.data) : srv.data[i] = model
    THEN [raised |-> "none", id |-> model]
    ELSE [raised |-> "ModelNotFound", id |-> NotResolved]

\* the model argument main gives call_llm, which becomes the payload's
\* "model": args.model, not model_name
call_llm_model(am, mn) == am

-----------------------------------------------------------------------------
(* The progress indicator *)

\* itertools.cycle(['|', '/', '-', '\\'])
Frames == <<"|", "/", "-", "\\">>

\* a finally block that sets the event and does not wait for the thread
thread_joinSkipped(w) == TRUE

\* animation_thread.join() returns once the thread has terminated
thread_join(w) == w = "finished"

-----------------------------------------------------------------------------
(* The session: main() *)

\* on a terminal a new event and a new thread are made for the turn and the
\* thread is started
StartWorker ==
  IF isatty
    THEN stop_event' = FALSE /\ worker' = "running" /\ frame' = 0
    ELSE UNCHANGED <<stop_event, worker, frame>>

\* the try block is left for target, through the finally block: on a
\* terminal the event is set and main waits in join()
Leave(target) ==
  IF isatty
    THEN pc' = "finally" /\ after' = target /\ stop_event' = TRUE
    ELSE pc' = target /\ UNCHANGED <<after, stop_event>>

Init ==
  /\ enabled \in SUBSET ToolType
  /\ apiKey \in BOOLEAN
  /\ system \in BOOLEAN
  /\ tools = <<>>
  /\ specs = <<>>
  /\ messages = <<>>
  /\ pc = "start"
  /\ assistant_message = NoMsg
  /\ idx = 0
  /\ tool_result = "none"
  /\ error = "none"
  /\ nRequests = 0
  /\ nRuns = 0
  /\ printed = NotPrinted
  /\ isatty = FALSE
  /\ stop_event = FALSE
  /\ worker = "none"
  /\ frame = 0
  /\ after = "none"
  /\ args_model = ""
  /\ srv_models = ServerUp(<<"m1", "m2">>)
  /\ model_name = NotResolved
  /\ request_model = NoRequest

\* main, up to the session loop: the registry is built and the log is seeded
Startup ==
  /\ pc = "start"
  /\ LET got == get_model_name(srv_models, args_model)
         tm == ToolManagerInit(enabled, apiKey) IN
       IF got.raised # "none"
         THEN /\ error' = got.raised
              /\ pc' = "crashed"
              /\ UNCHANGED <<model_name, tools, specs, messages>>
         ELSE /\ model_name' = got.id
              /\ tools' = tm.tools
              /\ specs' = tm.specs
              /\ messages' = IF system THEN AppendMsg(<<>>, SystemMsg) ELSE <<>>
              /\ pc' = "input"
              /\ error' = error
  /\ UNCHANGED <<enabled, apiKey, system, args_model, srv_models,
                 assistant_message, idx, tool_result, nRequests, nRuns,
                 printed, isatty, stop_event, worker, frame, after,
                 request_model>>

\* input() returns a prompt without the "@image:" tag
UserText ==
  /\ pc = "input"
  /\ nRequests < MaxRequests
  /\ messages' = AppendMsg(messages, UserMsg)
  /\ error' = "none"
  /\ StartWorker
  /\ pc' = "model"
  /\ UNCHANGED <<enabled, apiKey, system, args_model, srv_models,
                 model_name, request_model, tools, specs, assistant_message, idx,
                 tool_result, nRequests, nRuns, printed, isatty, after>>

\* input() returns a prompt with the "@image:" tag
UserImage ==
  /\ pc = "input"
  /\ nRequests < MaxRequests
  /\ \E kind \in ImageInputs :
       LET exc == parse_image(kind) IN
       /\ error' = exc
       /\ IF exc = "none"
            THEN /\ messages' = AppendMsg(messages, UserMsg)
                 /\ StartWorker
                 /\ pc' = "model"
            ELSE /\ messages' = messages
                 /\ UNCHANGED <<stop_event, worker, frame>>
                 /\ pc' = IF exc \in ValueErrors THEN "input"
                          ELSE IF exc = "RequestException" THEN "ended"
                          ELSE "crashed"
  /\ UNCHANGED <<enabled, apiKey, system, args_model, srv_models,
                 model_name, request_model, tools, specs, assistant_message, idx,
                 tool_result, nRequests, nRuns, printed, isatty, after>>

\* input() raises EOFError or KeyboardInterrupt
UserEOF ==
  /\ pc = "input"
  /\ error' = "EOFError"
  /\ pc' = "ended"
  /\ UNCHANGED <<enabled, apiKey, system, args_model, srv_models,
                 model_name, request_model, tools, specs, messages,
                 assistant_message, idx, tool_result, nRequests, nRuns,
                 printed, isatty, stop_event, worker, frame, after>>

\* call_llm raises: the transport failed or the status is not 2xx
LLMFails ==
  /\ pc = "model"
  /\ nRequests < MaxRequests
  /\ nRequests' = nRequests + 1
  /\ request_model' = call_llm_model(args_model, model_name)
  /\ error' = "RequestException"
  /\ Leave("ended")
  /\ UNCHANGED <<enabled, apiKey, system, args_model, srv_models,
                 model_name, tools, specs, messages,
                 assistant_message, idx, tool_result, nRuns, printed, isatty,
                 worker, frame>>

\* call_llm returns an assistant message, which is appended; the while
\* condition then decides between the tool loop and the presenter
LLMResponds ==
  /\ pc = "model"
  /\ nRequests < MaxRequests
  /\ nRequests' = nRequests + 1
  /\ request_model' = call_llm_model(args_model, model_name)
  /\ \E m \in AssistantTurns :
       /\ assistant_message' = m
       /\ messages' = AppendMsg(messages, m)
       /\ IF LoopCond(specs, m)
            THEN pc' = "tools" /\ idx' = 1 /\ UNCHANGED <<after, stop_event>>
            ELSE Leave("done") /\ idx' = 0
  /\ UNCHANGED <<enabled, apiKey, system, args_model, srv_models,
                 model_name, tools, specs, tool_result, error,
                 nRuns, printed, isatty, worker, frame>>

\* one pass of the for loop up to run_tool's return: json.loads, run_tool
DispatchTool ==
  /\ pc = "tools"
  /\ LET call == assistant_message.tool_calls[idx] IN
     IF ~json_loads(call.arguments)
       THEN /\ error' = "JSONDecodeError"
            /\ Leave("crashed")
            /\ UNCHANGED <<tool_result, nRuns>>
       ELSE \E outcome \in Outcomes :
            LET r == run_tool(tools, call.name, call.arguments, outcome) IN
            /\ nRuns' = IF r.ran THEN nRuns + 1 ELSE nRuns
            /\ tool_result' = r.result
            /\ error' = r.raised
            /\ IF r.raised = "none"
                 THEN pc' = "append" /\ UNCHANGED <<after, stop_event>>
                 ELSE IF r.raised = "RequestException" THEN Leave("ended")
                 ELSE Leave("crashed")
  /\ UNCHANGED <<enabled, apiKey, system, args_model, srv_models,
                 model_name, request_model, tools, specs, messages,
                 assistant_message, idx, nRequests, printed, isatty, worker,
                 frame>>

\* the rest of the pass: the tool message is appended; after the last call
\* the model is queried again
AppendToolResult ==
  /\ pc = "append"
  /\ LET call == assistant_message.tool_calls[idx] IN
       messages' = AppendMsg(messages, ToolMessage(call, tool_result))
  /\ tool_result' = "none"
  /\ IF ForLoopMore(idx, assistant_message.tool_calls)
       THEN pc' = "tools" /\ idx' = idx + 1
       ELSE pc' = "model" /\ idx' = 0
  /\ UNCHANGED <<enabled, apiKey, system, args_model, srv_models,
                 model_name, request_model, tools, specs, assistant_message,
                 error, nRequests, nRuns, printed, isatty, stop_event, worker,
                 frame, after>>

\* Done: print_response(console, assistant_message, ...), then the next prompt
PresentResponse ==
  /\ pc = "done"
  /\ printed' = print_response(assistant_message)
  /\ pc' = "input"
  /\ UNCHANGED <<enabled, apiKey, system, args_model, srv_models,
                 model_name, request_model, tools, specs, messages,
                 assistant_message, idx, tool_result, error, nRequests,
                 nRuns, isatty, stop_event, worker, frame, after>>

Next ==
  \/ Startup
  \/ UserText
  \/ UserImage
  \/ UserEOF
  \/ LLMFails
  \/ LLMResponds
  \/ DispatchTool
  \/ AppendToolResult
  \/ PresentResponse

Spec == Init /\ [][Next]_vars

-----------------------------------------------------------------------------
(* The session on a terminal: the progress indicator runs beside main, and  *)
(* Ctrl-C may arrive while main is blocked in call_llm or run_tool           *)

\* the variables of main: everything but the thread's own state
main_vars == <<enabled, apiKey, system, tools, specs, messages, pc,
               assistant_message, idx, tool_result, error, nRequests, nRuns,
               printed, isatty, stop_event, after, args_model, srv_models,
               model_name, request_model>>

\* one pass of animate's loop: leave it when the event is set, else write
\* the next frame; after the loop the line is reset
Animate ==
  /\ worker = "running"
  /\ IF stop_event
       THEN worker' = "finished" /\ frame' = 0
       ELSE worker' = worker /\ frame' = (frame % Len(Frames)) + 1
  /\ UNCHANGED main_vars

\* the finally block is left when join() returns; the pending return or
\* exception then takes main to the presenter or out of the loop
Join ==
  /\ pc = "finally"
  /\ thread_join(worker)
  /\ pc' = after
  /\ after' = "none"
  /\ UNCHANGED <<enabled, apiKey, system, args_model, srv_models,
                 model_name, request_model, tools, specs, messages,
                 assistant_message, idx, tool_result, error, nRequests, nRuns,
                 printed, isatty, stop_event, worker, frame>>

\* KeyboardInterrupt while main is blocked in call_llm or in run_tool
Interrupt ==
  /\ pc \in {"model", "tools"}
  /\ error' = "KeyboardInterrupt"
  /\ Leave("ended")
  /\ UNCHANGED <<enabled, apiKey, system, args_model, srv_models,
                 model_name, request_model, tools, specs, messages,
                 assistant_message, idx, tool_result, nRequests, nRuns,
                 printed, isatty, worker, frame>>

\* a session started from a terminal by the command line, whose parser
\* always switches the basic tools on: with and without --tools_web_access,
\* the search credential set
InitTTY ==
  /\ enabled \in {{"basic"}, {"basic", "web_access"}}
  /\ apiKey = TRUE
  /\ system = FALSE
  /\ tools = <<>>
  /\ specs = <<>>
  /\ messages = <<>>
  /\ pc = "start"
  /\ assistant_message = NoMsg
  /\ idx = 0
  /\ tool_result = "none"
  /\ error = "none"
  /\ nRequests = 0
  /\ nRuns = 0
  /\ printed = NotPrinted
  /\ isatty = TRUE
  /\ stop_event = FALSE
  /\ worker = "none"
  /\ frame = 0
  /\ after = "none"
  /\ args_model = ""
  /\ srv_models = ServerUp(<<"m1", "m2">>)
  /\ model_name = NotResolved
  /\ request_model = NoRequest

NextTTY ==
  \/ Next
  \/ Animate
  \/ Join
  \/ Interrupt

SpecTTY == InitTTY /\ [][NextTTY]_vars

-----------------------------------------------------------------------------
(* The session over the --model argument and the server's model list        *)

ModelIds == {"m1", "m2", "m3"}

ServerAnswers ==
  {ServerDown, ServerUp(<<>>), ServerUp(<<"m1", "m2">>),
   ServerUp(<<"m2", "m1">>)}

InitModels ==
  /\ enabled = {"basic"}
  /\ apiKey = FALSE
  /\ system = FALSE
  /\ tools = <<>>
  /\ specs = <<>>
  /\ messages = <<>>
  /\ pc = "start"
  /\ assistant_message = NoMsg
  /\ idx = 0
  /\ tool_result = "none"
  /\ error = "none"
  /\ nRequests = 0
  /\ nRuns = 0
  /\ printed = NotPrinted
  /\ isatty = FALSE
  /\ stop_event = FALSE
  /\ worker = "none"
  /\ frame = 0
  /\ after = "none"
  /\ args_model \in {""} \cup ModelIds
  /\ srv_models \in ServerAnswers
  /\ model_name = NotResolved
  /\ request_model = NoRequest

SpecModels == InitModels /\ [][Next]_vars

-----------------------------------------------------------------------------
(* The presenter on its own: print_response applied to the assistant turns   *)
(* of a bounded alphabet, in the session state that follows one response of  *)
(* the default configuration (tools_basic only)                              *)

Alphabet == {"x", WS, AnswerMarker, EndMarker}

Contents == UNION {[1..n -> Alphabet] : n \in 0..MaxLen}

Reasonings ==
  {[has |-> FALSE, text |-> <<>>], [has |-> TRUE, text |-> <<>>],
   [has |-> TRUE, text |-> <<"r">>]}

FinishedTurns ==
  {[role |-> "assistant", content |-> c, has_reasoning |-> r.has,
    reasoning_content |-> r.text, tool_calls |-> <<>>,
    tool_call_id |-> 0, name |-> ""] : c \in Contents, r \in Reasonings}

InitPresenter ==
  /\ enabled = {"basic"}
  /\ apiKey = FALSE
  /\ system = FALSE
  /\ LET tm == ToolManagerInit(enabled, apiKey) IN
       tools = tm.tools /\ specs = tm.specs
  /\ assistant_message \in FinishedTurns
  /\ messages = AppendMsg(AppendMsg(<<>>, UserMsg), assistant_message)
  /\ pc = "done"
  /\ idx = 0
  /\ tool_result = "none"
  /\ error = "none"
  /\ nRequests = 1
  /\ nRuns = 0
  /\ printed = NotPrinted
  /\ isatty = FALSE
  /\ stop_event = FALSE
  /\ worker = "none"
  /\ frame = 0
  /\ after = "none"
  /\ args_model = ""
  /\ srv_models = ServerUp(<<"m1", "m2">>)
  /\ model_name = get_model_name(srv_models, args_model).id
  /\ request_model = call_llm_model(args_model, model_name)

NextPresenter == PresentResponse

SpecPresenter == InitPresenter /\ [][NextPresenter]_vars

-----------------------------------------------------------------------------
(* Properties *)

Last(s) == s[Len(s)]

IsPrefix(s, t) == Len(s) <= Len(t) /\ SubSeq(t, 1, Len(s)) = s

Ids(calls) == [i \in 1..Len(calls) |-> calls[i].id]

\* index of the last assistant message of the log (0 when there is none)
LastAssistant ==
  LET A == {a \in 1..Len(messages) : messages[a].role = "assistant"} IN
  IF A = {} THEN 0 ELSE CHOOSE a \in A : \A b \in A : b <= a

\* the tool_call_ids of the tool messages that follow the last assistant message
ToolIdsSince ==
  [j \in 1..(Len(messages) - LastAssistant) |->
     messages[LastAssistant + j].tool_call_id]

ToolMessageCount ==
  Cardinality({k \in 1..Len(messages) : messages[k].role = "tool"})

\* C1: every tool-role message of the log follows an assistant message with
\* only tool-role messages in between, and the j-th tool message after that
\* assistant message carries the id of its j-th tool_call: the id is one of
\* the nearest preceding assistant message's, in the order of its tool_calls.
C1_ToolMessagesFollowCalls ==
  \A k \in 1..Len(messages) :
    messages[k].role = "tool" =>
      \E a \in 1..(k - 1) :
        /\ messages[a].role = "assistant"
        /\ \A j \in (a + 1)..k : messages[j].role = "tool"
        /\ k - a <= Len(messages[a].tool_calls)
        /\ messages[k].tool_call_id = messages[a].tool_calls[k - a].id
        /\ messages[k].name = messages[a].tool_calls[k - a].name

\* two assistant messages with tool_calls, the second answered by two tool
\* messages
C1_Witness ==
  /\ pc = "model"
  /\ Len(messages) >= 6
  /\ Last(messages).role = "tool"
  /\ messages[Len(messages) - 1].role = "tool"
  /\ \E a \in 1..(LastAssistant - 1) :
       messages[a].role = "assistant" /\ messages[a].tool_calls # <<>>

\* C2: Done is reached exactly when the latest assistant message has no
\* tool_calls or the registry is empty; an assistant message with tool_calls
\* under a non-empty registry sends the loop to ExecutingTools, never to Done.
C2_DoneIffNoCallsOrNoTools ==
  /\ pc = "done" =>
       /\ Last(messages) = assistant_message
       /\ assistant_message.tool_calls = <<>> \/ specs = <<>>
  /\ pc \in {"tools", "append"} =>
       assistant_message.tool_calls # <<>> /\ specs # <<>>
  /\ (messages # <<>> /\ Last(messages).role = "assistant") =>
       IF Last(messages).tool_calls # <<>> /\ specs # <<>>
         THEN pc \in {"tools", "append", "crashed"}
         ELSE pc \in {"done", "input", "ended"}

\* Done with tool_calls in the message because the registry is empty
C2_Witness ==
  pc = "done" /\ assistant_message.tool_calls # <<>> /\ specs = <<>>

\* the tool_calls of the assistant message at position a that no later
\* tool-role message answers
Unresolved(a) ==
  {i \in 1..Len(messages[a].tool_calls) :
     ~\E k \in (a + 1)..Len(messages) :
        /\ messages[k].role = "tool"
        /\ messages[k].tool_call_id = messages[a].tool_calls[i].id}

\* C3 as stated: at Done the last appended assistant message has no
\* unresolved tool_calls, whatever the configuration.
C3_Original_NoUnresolvedAtDone ==
  pc = "done" =>
    /\ Last(messages) = assistant_message
    /\ Unresolved(Len(messages)) = {}

\* C3, amended: at Done the message handed to the presenter is the last of
\* the log; with a non-empty registry it has no tool_calls, so none is
\* unresolved; with an empty registry every tool_call it carries is unresolved.
C3_NoUnresolvedAtDoneWithTools ==
  pc = "done" =>
    /\ Last(messages) = assistant_message
    /\ specs # <<>> => assistant_message.tool_calls = <<>>
    /\ specs = <<>> =>
         Unresolved(Len(messages)) = 1..Len(assistant_message.tool_calls)

\* Done after a round of tool execution
C3_Witness ==
  pc = "done" /\ specs # <<>> /\ ToolMessageCount > 0

\* C4: the dispatch of a name that is not in the dispatch table raises
\* ToolNotFound, runs no provider, appends nothing and ends main: no step
\* follows it, so no completion request either.
C4_UnknownToolAborts ==
  [][/\ (/\ pc = "tools"
         /\ assistant_message.tool_calls[idx].arguments = "valid"
         /\ assistant_message.tool_calls[idx].name \notin DOMAIN tools) =>
          /\ pc' = "crashed"
          /\ error' = "ToolNotFound"
          /\ messages' = messages
          /\ nRuns' = nRuns
          /\ nRequests' = nRequests
     /\ error = "ToolNotFound" =>
          /\ messages' = messages
          /\ nRequests' = nRequests
          /\ pc' = "crashed"]_vars

\* an unknown name met as the second call of a message
C4_Witness ==
  /\ pc = "crashed"
  /\ error = "ToolNotFound"
  /\ idx = 2
  /\ ToolIdsSince = <<1>>

\* C5: after construction the dispatch table and the spec list hold exactly
\* the providers that constructed and whose category is enabled, each once.
C5_RegistryHoldsEnabledConstructed ==
  pc # "start" =>
    LET failed == IF apiKey THEN {} ELSE {"WebSearchTool"}
        ok == {c \in {ToolClasses[i] : i \in 1..Len(ToolClasses)} :
                 c \notin failed /\ tool_type(c) \in enabled}
    IN /\ DOMAIN tools = {spec_name(c) : c \in ok}
       /\ \A n \in DOMAIN tools : tools[n] \in ok /\ spec_name(tools[n]) = n
       /\ {specs[i] : i \in 1..Len(specs)} = {spec_name(c) : c \in ok}
       /\ Len(specs) = Cardinality(ok)

\* WebSearchTool failed to construct and providers on both sides of it are
\* registered
C5_Witness ==
  /\ pc # "start"
  /\ ~apiKey
  /\ enabled = ToolType
  /\ "web_search" \notin DOMAIN tools
  /\ {"web_fetch", "list_dir", "write_file"} \subseteq DOMAIN tools

\* str.strip(), stated by positions: from the first to the last token that is
\* not whitespace
Trimmed(s) ==
  LET N == {i \in 1..Len(s) : s[i] # WS} IN
  IF N = {} THEN <<>>
  ELSE SubSeq(s, CHOOSE i \in N : \A j \in N : i <= j,
                 CHOOSE i \in N : \A j \in N : j <= i)

First(s, m) == CHOOSE i \in 1..Len(s) : s[i] = m /\ \A j \in 1..(i - 1) : s[j] # m

Before(s, m) == SubSeq(s, 1, First(s, m) - 1)

After(s, m) == SubSeq(s, First(s, m) + 1, Len(s))

HasReasoning(r) == r.has_reasoning /\ r.reasoning_content # <<>>

\* C6 as stated: the presenter's pair is the reasoning channel and the
\* content, or the content split at the first "<answer>", else at the first
\* "<|end|>", into prefix and suffix as they stand, or no reasoning and the
\* content.
C6_Original_PresenterReference ==
  printed # NotPrinted =>
    LET r == assistant_message
        c == r.content IN
    printed =
      IF HasReasoning(r) THEN <<r.reasoning_content, c>>
      ELSE IF \E i \in 1..Len(c) : c[i] = AnswerMarker
        THEN <<Before(c, AnswerMarker), After(c, AnswerMarker)>>
      ELSE IF \E i \in 1..Len(c) : c[i] = EndMarker
        THEN <<Before(c, EndMarker), After(c, EndMarker)>>
      ELSE <<<<>>, c>>

\* C6, amended: as stated, with the prefix and the suffix of a split each
\* trimmed of leading and trailing whitespace.
C6_PresenterReferenceTrimmed ==
  printed # NotPrinted =>
    LET r == assistant_message
        c == r.content IN
    printed =
      IF HasReasoning(r) THEN <<r.reasoning_content, c>>
      ELSE IF \E i \in 1..Len(c) : c[i] = AnswerMarker
        THEN <<Trimmed(Before(c, AnswerMarker)), Trimmed(After(c, AnswerMarker))>>
      ELSE IF \E i \in 1..Len(c) : c[i] = EndMarker
        THEN <<Trimmed(Before(c, EndMarker)), Trimmed(After(c, EndMarker))>>
      ELSE <<<<>>, c>>

\* "<|end|>" before "<answer>" in a content without a reasoning channel: the
\* split is at "<answer>"
C6_Witness ==
  /\ ~HasReasoning(assistant_message)
  /\ assistant_message.content = <<EndMarker, AnswerMarker, "x">>
  /\ printed = <<<<EndMarker>>, <<"x">>>>

\* C7: the malformed-input failures (tool-call arguments, image tag, image
\* media type) leave the session at the prompt, and a transport failure of
\* the completion request ends the session.
C7_MalformedInputKeepsSession ==
  /\ error \in {"JSONDecodeError", "MalformedImageTag", "UnsupportedImageType"}
       => pc = "input"
  /\ error = "RequestException" => pc = "ended"

\* C8: a provider that fails returns "Error" to the loop, which does not
\* abort: the text is appended as the tool message of the call, and the loop
\* goes on to the next call or, after the last one, to the next request.
C8_ToolFailureIsAMessage ==
  [][/\ (/\ pc = "tools"
         /\ assistant_message.tool_calls[idx].arguments = "valid"
         /\ assistant_message.tool_calls[idx].name \in DOMAIN tools) =>
          /\ pc' = "append"
          /\ error' = "none"
          /\ tool_result' \in {"ok", "Error"}
          /\ messages' = messages
     /\ (pc = "append" /\ tool_result = "Error") =>
          LET call == assistant_message.tool_calls[idx] IN
          /\ Len(messages') = Len(messages) + 1
          /\ SubSeq(messages', 1, Len(messages)) = messages
          /\ Last(messages').role = "tool"
          /\ Last(messages').content = <<"Error">>
          /\ Last(messages').tool_call_id = call.id
          /\ error' = "none"
          /\ IF idx < Len(assistant_message.tool_calls)
               THEN pc' = "tools" /\ idx' = idx + 1
               ELSE pc' = "model"]_vars

\* a failed first call, a second call run after it, and the model queried
\* again
C8_Witness ==
  /\ Len(messages) >= 4
  /\ Last(messages).role = "assistant"
  /\ messages[Len(messages) - 2].role = "tool"
  /\ messages[Len(messages) - 2].content = <<"Error">>
  /\ messages[Len(messages) - 1].role = "tool"

\* C9: in the tool loop the calls before the current one, and only those,
\* have their tool message, in order; a provider has run for each message and
\* for nothing else but the call whose result is about to be appended; and a
\* completion request that follows tool messages follows one per tool_call.
C9_SequentialDispatch ==
  /\ pc = "tools" =>
       /\ ToolIdsSince = SubSeq(Ids(assistant_message.tool_calls), 1, idx - 1)
       /\ nRuns = ToolMessageCount
  /\ pc = "append" =>
       /\ ToolIdsSince = SubSeq(Ids(assistant_message.tool_calls), 1, idx - 1)
       /\ nRuns = ToolMessageCount + 1
  /\ (pc = "model" /\ Last(messages).role = "tool") =>
       /\ messages[LastAssistant] = assistant_message
       /\ ToolIdsSince = Ids(assistant_message.tool_calls)
       /\ nRuns = ToolMessageCount
  /\ \A a \in 2..Len(messages) :
       (messages[a].role = "assistant" /\ messages[a - 1].role = "tool") =>
         \E b \in 1..(a - 1) :
           /\ messages[b].role = "assistant"
           /\ a - b - 1 = Len(messages[b].tool_calls)
           /\ \A j \in 1..(a - b - 1) :
                /\ messages[b + j].role = "tool"
                /\ messages[b + j].tool_call_id = messages[b].tool_calls[j].id

\* the model is about to be queried again after the two calls of a message
C9_Witness ==
  /\ pc = "model"
  /\ Len(assistant_message.tool_calls) = 2
  /\ ToolIdsSince = <<1, 2>>

\* C10: every step leaves the log as it is or extends it at the end, and the
\* log of the session's first prompt is empty or one system message.
C10_AppendOnly ==
  [][/\ IsPrefix(messages, messages')
     /\ pc = "start" => messages' \in {<<>>, <<SystemMsg>>}]_vars

\* a second user turn, with tool messages, after a first one
C10_Witness ==
  /\ Cardinality({k \in 1..Len(messages) : messages[k].role = "user"}) = 2
  /\ messages[1].role = "system"
  /\ ToolMessageCount > 0

\* C11: when the response is presented or the next prompt is read, the
\* worker is not running, and a worker that was started has seen its event
\* set and has terminated; so it has on every way out of the model and tool
\* phase (return, tool-dispatch error, transport error, interrupt), where
\* main waits in the finally block with the event set. A step of the worker
\* changes nothing but the worker's own state and the frame on the terminal.
C11_WorkerJoinedBeforeProceeding ==
  /\ [](pc \in {"done", "input", "ended", "crashed"} =>
          /\ worker # "running"
          /\ worker = "finished" => stop_event)
  /\ [](pc = "finally" => stop_event /\ worker # "none")
  /\ [](pc \in {"model", "tools", "append"} => worker = "running" /\ ~stop_event)
  /\ [][(frame' # frame \/ (worker = "running" /\ worker' = "finished")) =>
          /\ UNCHANGED main_vars
          /\ worker' = "finished" <=> stop_event]_vars

\* a response presented on a terminal after a round of tool execution, the
\* worker of the turn terminated
C11_Witness ==
  /\ isatty
  /\ pc = "done"
  /\ worker = "finished"
  /\ stop_event
  /\ ToolMessageCount > 0


\* C12: the model named in every completion request is the session's
\* resolved model: the --model id when one is given and the server lists
\* it, else the first id of the server's list
C12_RequestsCarryResolvedModel ==
  request_model # NoRequest =>
    /\ request_model = model_name
    /\ request_model = IF args_model = "" THEN srv_models.data[1]
                       ELSE args_model

\* with --model given, the requests do carry the resolved model
C12_RequestsCarryGivenModel ==
  (request_model # NoRequest /\ args_model # "") =>
    /\ request_model = model_name
    /\ request_model = args_model

\* a request was made in a session started without --model
C12_DefaultModelRequested ==
  /\ request_model # NoRequest
  /\ args_model = ""
  /\ model_name = srv_models.data[1]

\* resolution fails before the first prompt: no request is ever made
C12_NoRequestUnlessResolved ==
  request_model # NoRequest => model_name # NotResolved

\* C13: there is no cap on the tool round-trips of a user turn. With a tool
\* enabled, a response that carries tool_calls always starts their dispatch,
\* however many rounds the turn has had; a call that dispatches without an
\* exception is always followed by its tool message, and the last tool
\* message of a round by the next query. Done is reached only on a response
\* without tool_calls, and the loop is left otherwise only by an exception.
C13_NoRoundCap ==
  /\ [][(/\ pc = "model"
          /\ specs # <<>>
          /\ Len(messages') > Len(messages)
          /\ messages'[Len(messages')].tool_calls # <<>>)
            => pc' = "tools" /\ idx' = 1]_vars
  /\ [][(pc = "tools" /\ pc' # pc /\ error' = "none") => pc' = "append"]_vars
  /\ [][pc = "append" =>
          IF idx < Len(assistant_message.tool_calls)
            THEN pc' = "tools" /\ idx' = idx + 1
            ELSE pc' = "model"]_vars
  /\ [](specs # <<>> /\ pc = "done" =>
          /\ ToolRounds < Len(messages) - LastUser
          /\ messages[Len(messages)].tool_calls = <<>>)
  /\ [](pc \in {"ended", "crashed"} => error # "none")

\* every request the bound allows was answered with tool_calls within one
\* user turn, all dispatched, and the loop is about to query again
C13_Witness ==
  /\ pc = "model"
  /\ specs # <<>>
  /\ ToolRounds = MaxRequests
  /\ nRequests = MaxRequests
  /\ ToolRounds > 1
  /\ messages[Len(messages)].role = "tool"

====
